---- MODULE Spec2Model ----
(***************************************************************************)
(* Heating economics calculator (src/app.py): oil / gas / heat pump + PV.  *)
(*                                                                         *)
(* The script's numbers are Python floats.  They are modelled as binary    *)
(* floating-point values m * 2^e with a mantissa of Prec bits, unbounded   *)
(* exponent and round-to-nearest, ties-to-even, which is what every float  *)
(* operation of the script does (CPython: Prec = 53).                      *)
(***************************************************************************)
EXTENDS Integers, Sequences, FiniteSets, TLC

\* Width of the mantissa of a float, in bits.
Prec == 11

----------------------------------------------------------------------------
\* Floating-point arithmetic

\* F applied to v, with v computed once however often F uses it.
With(v, F(_)) == F(v)

Pow2(k) == 2 ^ k

\* 2^Prec and 2^(Prec-1): the mantissa m of a float other than 0.0 has
\* MantLo <= |m| < MantHi.
MantHi == Pow2(Prec)

MantLo == Pow2(Prec - 1)

AbsInt(i) == IF i < 0 THEN -i ELSE i

SignInt(i) == IF i < 0 THEN -1 ELSE 1

\* The float 0.0.
Zero == [m |-> 0, e |-> 0]

\* What a division by zero leaves behind: Python raises ZeroDivisionError and
\* the script run stops; no float is produced.
ZeroDivisionError == [m |-> 0, e |-> 1]

\* The number of bits of i > 0: 2^(BitLen(i)-1) <= i < 2^BitLen(i).
BitLen(i) == CHOOSE k \in 1..30 : Pow2(k - 1) <= i /\ (k = 30 \/ i < Pow2(k))

\* The float nearest to (n / d) * 2^e, for n > 0 and d > 0: the quotient is
\* scaled by a power of two into [2^(Prec-1), 2^Prec) and rounded to an
\* integer, ties to even.
RoundPos(n, d, e) ==
    With(Prec - 1 - (BitLen(n) - BitLen(d)), LAMBDA s0 :
    With(IF (IF s0 >= 0 THEN n * Pow2(s0) ELSE n)
              < (IF s0 >= 0 THEN d ELSE d * Pow2(-s0)) * MantLo
         THEN s0 + 1 ELSE s0, LAMBDA s :
    With(IF s >= 0 THEN n * Pow2(s) ELSE n, LAMBDA n1 :
    With(IF s >= 0 THEN d ELSE d * Pow2(-s), LAMBDA d1 :
    With(n1 \div d1, LAMBDA q :
    With(n1 % d1, LAMBDA rest :
    With(IF (2 * rest > d1) \/ (2 * rest = d1 /\ q % 2 = 1) THEN q + 1 ELSE q,
         LAMBDA q1 :
        IF q1 = MantHi THEN [m |-> MantLo, e |-> e - s + 1]
                       ELSE [m |-> q1, e |-> e - s])))))))

\* The float nearest to s * (n / d) * 2^e, for s in {1, -1}, n >= 0, d > 0.
FRound(s, n, d, e) ==
    IF n = 0 THEN Zero
    ELSE With(RoundPos(n, d, e), LAMBDA p : [m |-> s * p.m, e |-> p.e])

\* A decimal literal or entry n/d (0.85 is Dec(85, 100)) as a float.
Dec(n, d) == FRound(SignInt(n), AbsInt(n), d, 0)

\* The floats 1.0 and 100.0.
One == Dec(1, 1)

Hundred == Dec(100, 1)

FNeg(a) == [m |-> -a.m, e |-> a.e]

\* a * b
FMul(a, b) ==
    IF a.m = 0 \/ b.m = 0 THEN Zero
    ELSE FRound(SignInt(a.m) * SignInt(b.m), AbsInt(a.m) * AbsInt(b.m), 1, a.e + b.e)

\* a / b
FDiv(a, b) ==
    IF b.m = 0 THEN ZeroDivisionError
    ELSE IF a.m = 0 THEN Zero
    ELSE FRound(SignInt(a.m) * SignInt(b.m), AbsInt(a.m), AbsInt(b.m), a.e - b.e)

\* a + b.  An operand below a quarter of the other's last place cannot change it.
FAdd(a, b) ==
    IF a.m = 0 THEN b
    ELSE IF b.m = 0 THEN a
    ELSE IF a.e - b.e >= Prec + 2 THEN a
    ELSE IF b.e - a.e >= Prec + 2 THEN b
    ELSE With(IF a.e < b.e THEN a.e ELSE b.e, LAMBDA lo :
         With(a.m * Pow2(a.e - lo) + b.m * Pow2(b.e - lo), LAMBDA s :
             FRound(SignInt(s), AbsInt(s), 1, lo)))

\* a - b
FSub(a, b) == FAdd(a, FNeg(b))

\* a < b, a <= b
FLt(a, b) == FSub(a, b).m < 0

FLe(a, b) == FSub(a, b).m <= 0

\* Python's max(a, b): b only if b > a.
PyMax(a, b) == IF FLt(a, b) THEN b ELSE a

----------------------------------------------------------------------------
\* Hilfsfunktionen

jahres_heizwaermebedarf(kwh_pro_m2a, wohnflaeche_m2) == FMul(kwh_pro_m2a, wohnflaeche_m2)

\* oel_verbrauch_l multiplying by the efficiency instead of dividing by it.
oel_verbrauch_l_times_eta(q_h_kwh, heizwert_kwh_l, eta) ==
    FDiv(FMul(q_h_kwh, eta), heizwert_kwh_l)

oel_verbrauch_l(q_h_kwh, heizwert_kwh_l, eta) == FDiv(q_h_kwh, FMul(eta, heizwert_kwh_l))

gas_verbrauch_m3(q_h_kwh, heizwert_kwh_m3, eta) == FDiv(q_h_kwh, FMul(eta, heizwert_kwh_m3))

wp_strombedarf_kwh(q_h_kwh, jaz) == FDiv(q_h_kwh, jaz)

pv_jahreserzeugung_kwh(pv_kwp_, spez_ertrag_) == FMul(pv_kwp_, spez_ertrag_)

\* kosten_wp with the two prices taken for each other.
kosten_wp_locals_swapped(strombedarf_wp, pv_deck, strompreis, lcoe_pv_) ==
    With(FMul(strombedarf_wp, pv_deck), LAMBDA pv_kwh :
    With(PyMax(FSub(strombedarf_wp, pv_kwh), Zero), LAMBDA netz_kwh :
        [ pv_kwh   |-> pv_kwh,
          netz_kwh |-> netz_kwh,
          return   |-> FAdd(FMul(pv_kwh, strompreis), FMul(netz_kwh, lcoe_pv_)) ]))

\* kosten_wp without the max(..., 0) around the grid-covered quantity.
kosten_wp_locals_unclamped(strombedarf_wp, pv_deck, strompreis, lcoe_pv_) ==
    With(FMul(strombedarf_wp, pv_deck), LAMBDA pv_kwh :
    With(FSub(strombedarf_wp, pv_kwh), LAMBDA netz_kwh :
        [ pv_kwh   |-> pv_kwh,
          netz_kwh |-> netz_kwh,
          return   |-> FAdd(FMul(pv_kwh, lcoe_pv_), FMul(netz_kwh, strompreis)) ]))

\* The variables of kosten_wp's body and the value it returns.
kosten_wp_locals(strombedarf_wp, pv_deck, strompreis, lcoe_pv_) ==
    With(FMul(strombedarf_wp, pv_deck), LAMBDA pv_kwh :
    With(PyMax(FSub(strombedarf_wp, pv_kwh), Zero), LAMBDA netz_kwh :
        [ pv_kwh   |-> pv_kwh,
          netz_kwh |-> netz_kwh,
          return   |-> FAdd(FMul(pv_kwh, lcoe_pv_), FMul(netz_kwh, strompreis)) ]))

kosten_wp(strombedarf_wp, pv_deck, strompreis, lcoe_pv_) ==
    kosten_wp_locals(strombedarf_wp, pv_deck, strompreis, lcoe_pv_).return

\* co2_wp charging the solar-covered share instead of the grid-covered one.
co2_wp_locals_solar(strombedarf_wp, pv_deck, co2_strom_) ==
    With(PyMax(FMul(strombedarf_wp, pv_deck), Zero), LAMBDA netz_kwh :
        [ netz_kwh |-> netz_kwh,
          return   |-> FMul(netz_kwh, co2_strom_) ])

\* The variable of co2_wp's body and the value it returns.
co2_wp_locals(strombedarf_wp, pv_deck, co2_strom_) ==
    With(PyMax(FMul(strombedarf_wp, FSub(One, pv_deck)), Zero), LAMBDA netz_kwh :
        [ netz_kwh |-> netz_kwh,
          return   |-> FMul(netz_kwh, co2_strom_) ])

co2_wp(strombedarf_wp, pv_deck, co2_strom_) ==
    co2_wp_locals(strombedarf_wp, pv_deck, co2_strom_).return

----------------------------------------------------------------------------
\* Default-Annahmen

DEFAULTS ==
    [ spez_ertrag_pv        |-> Dec(950, 1),
      heizwert_oel_kwh_l    |-> Dec(10, 1),
      heizwert_gas_kwh_m3   |-> Dec(10, 1),
      eta_oel               |-> Dec(85, 100),
      eta_gas               |-> Dec(95, 100),
      jaz_wp                |-> Dec(32, 10),
      pv_deckung_wp         |-> Dec(20, 100),
      strompreis_wp         |-> Dec(26, 100),
      lcoe_pv               |-> Dec(12, 100),
      preis_oel_eur_l       |-> Dec(105, 100),
      preis_gas_eur_m3      |-> Dec(120, 100),
      co2_oel_kg_l          |-> Dec(265, 100),
      co2_gas_kg_m3         |-> Dec(2, 1),
      co2_strom_kg_kwh      |-> Dec(35, 100),
      spez_heizwaermebedarf |-> Dec(110, 1) ]

----------------------------------------------------------------------------
\* Sidebar: the numeric widgets the calculation reads

WidgetNames ==
    { "wohnflaeche", "pv_kwp", "speicher_kwh", "spez_ertrag", "wp_kw", "jaz_wp",
      "pv_deckung", "preis_oel", "preis_gas", "strompreis_wp", "lcoe_pv",
      "co2_strom", "spez_bedarf", "eta_oel", "eta_gas" }

\* Python's int(x) of a float x >= 0: truncation.
IntTrunc(a) ==
    IF a.m = 0 THEN 0
    ELSE IF a.e >= 0 THEN a.m * Pow2(a.e)
    ELSE a.m \div Pow2(-a.e)

\* value= of each widget: what it returns on the first run.
InitialValue ==
    [ wohnflaeche   |-> Dec(3509, 10),
      pv_kwp        |-> Dec(245, 10),
      speicher_kwh  |-> Dec(40, 1),
      spez_ertrag   |-> DEFAULTS.spez_ertrag_pv,
      wp_kw         |-> Dec(13, 1),
      jaz_wp        |-> DEFAULTS.jaz_wp,
      pv_deckung    |-> Dec(IntTrunc(FMul(DEFAULTS.pv_deckung_wp, Hundred)), 1),
      preis_oel     |-> DEFAULTS.preis_oel_eur_l,
      preis_gas     |-> DEFAULTS.preis_gas_eur_m3,
      strompreis_wp |-> DEFAULTS.strompreis_wp,
      lcoe_pv       |-> DEFAULTS.lcoe_pv,
      co2_strom     |-> DEFAULTS.co2_strom_kg_kwh,
      spez_bedarf   |-> DEFAULTS.spez_heizwaermebedarf,
      eta_oel       |-> DEFAULTS.eta_oel,
      eta_gas       |-> DEFAULTS.eta_gas ]

\* min_value= of each widget.
MinValue ==
    [ wohnflaeche   |-> Dec(1, 1),
      pv_kwp        |-> Zero,
      speicher_kwh  |-> Zero,
      spez_ertrag   |-> Dec(500, 1),
      wp_kw         |-> Dec(1, 1),
      jaz_wp        |-> Dec(2, 1),
      pv_deckung    |-> Zero,
      preis_oel     |-> Zero,
      preis_gas     |-> Zero,
      strompreis_wp |-> Zero,
      lcoe_pv       |-> Zero,
      co2_strom     |-> Zero,
      spez_bedarf   |-> Dec(60, 1),
      eta_oel       |-> Dec(65, 100),
      eta_gas       |-> Dec(80, 100) ]

\* max_value= of the widgets that have one.
MaxValue ==
    [ spez_ertrag |-> Dec(1300, 1),
      jaz_wp      |-> Dec(5, 1),
      pv_deckung  |-> Dec(60, 1),
      spez_bedarf |-> Dec(220, 1),
      eta_oel     |-> Dec(95, 100),
      eta_gas     |-> Dec(1, 1) ]

\* Widgets without bounds: every entry is taken.
Accepts_unbounded(name, v) == TRUE

\* A widget takes an entry only within its bounds.
Accepts(name, v) ==
    /\ FLe(MinValue[name], v)
    /\ name \in DOMAIN MaxValue => FLe(v, MaxValue[name])

\* What the user may try to enter into a widget: values inside and outside
\* its bounds.
Entries ==
    [ wohnflaeche   |-> { Zero, Dec(1, 1), Dec(3509, 10) },
      pv_kwp        |-> { Dec(-1, 1), Zero, Dec(245, 10) },
      speicher_kwh  |-> { Dec(-1, 1), Zero, Dec(40, 1) },
      spez_ertrag   |-> { Dec(490, 1), Dec(950, 1), Dec(1300, 1), Dec(1310, 1) },
      wp_kw         |-> { Zero, Dec(5, 10), Dec(1, 1), Dec(13, 1) },
      jaz_wp        |-> { Zero, Dec(2, 1), Dec(32, 10), Dec(51, 10) },
      pv_deckung    |-> { Dec(-5, 1), Zero, Dec(20, 1), Dec(60, 1), Dec(100, 1) },
      preis_oel     |-> { Dec(-1, 100), Zero, Dec(105, 100) },
      preis_gas     |-> { Dec(-1, 100), Zero, Dec(120, 100) },
      strompreis_wp |-> { Dec(-1, 100), Dec(7, 100), Dec(26, 100) },
      lcoe_pv       |-> { Dec(-1, 100), Dec(12, 100), Dec(30, 100) },
      co2_strom     |-> { Dec(-1, 100), Zero, Dec(35, 100) },
      spez_bedarf   |-> { Zero, Dec(60, 1), Dec(110, 1), Dec(225, 1) },
      eta_oel       |-> { Zero, Dec(65, 100), Dec(85, 100), Dec(1, 1) },
      eta_gas       |-> { Zero, Dec(95, 100), Dec(1, 1), Dec(105, 100) } ]

----------------------------------------------------------------------------
\* Berechnungen Basisszenario

\* Öl
oel_block(q_h, eta_oel, preis_oel) ==
    With(oel_verbrauch_l(q_h, DEFAULTS.heizwert_oel_kwh_l, eta_oel), LAMBDA oel_l :
        [ oel_l      |-> oel_l,
          oel_kosten |-> FMul(oel_l, preis_oel),
          oel_co2    |-> FMul(oel_l, DEFAULTS.co2_oel_kg_l) ])

\* Gas
gas_block(q_h, eta_gas, preis_gas) ==
    With(gas_verbrauch_m3(q_h, DEFAULTS.heizwert_gas_kwh_m3, eta_gas), LAMBDA gas_m3 :
        [ gas_m3     |-> gas_m3,
          gas_kosten |-> FMul(gas_m3, preis_gas),
          gas_co2    |-> FMul(gas_m3, DEFAULTS.co2_gas_kg_m3) ])

\* The literal 0.001.
Epsilon == Dec(1, 1000)

\* vollbenutzungsstunden_wp without the max(wp_kw, 0.001).
vollbenutzungsstunden_unguarded(q_h, wp_kw) ==
    [ divisor |-> wp_kw, stunden |-> FDiv(q_h, wp_kw) ]

\* Zusatzkennzahlen: the divisor and the quotient of vollbenutzungsstunden_wp
vollbenutzungsstunden(q_h, wp_kw) ==
    With(PyMax(wp_kw, Epsilon), LAMBDA divisor :
        [ divisor |-> divisor, stunden |-> FDiv(q_h, divisor) ])

\* Berechnungen Basisszenario on the widgets' values: the variables the script
\* computes.
Berechnungen(widgets) ==
    With(FDiv(widgets.pv_deckung, Hundred), LAMBDA pv_deckung_wp :
    With(jahres_heizwaermebedarf(widgets.spez_bedarf, widgets.wohnflaeche), LAMBDA q_h :
    With(pv_jahreserzeugung_kwh(widgets.pv_kwp, widgets.spez_ertrag), LAMBDA pv_kwh :
    With(oel_block(q_h, widgets.eta_oel, widgets.preis_oel), LAMBDA oel :
    With(gas_block(q_h, widgets.eta_gas, widgets.preis_gas), LAMBDA gas :
    With(wp_strombedarf_kwh(q_h, widgets.jaz_wp), LAMBDA wp_kwh :
        [ pv_deckung_wp |-> pv_deckung_wp,
          q_h        |-> q_h,
          pv_kwh     |-> pv_kwh,
          oel_l      |-> oel.oel_l,
          oel_kosten |-> oel.oel_kosten,
          oel_co2    |-> oel.oel_co2,
          gas_m3     |-> gas.gas_m3,
          gas_kosten |-> gas.gas_kosten,
          gas_co2    |-> gas.gas_co2,
          wp_kwh     |-> wp_kwh,
          wp_kosten  |-> kosten_wp(wp_kwh, pv_deckung_wp, widgets.strompreis_wp,
                                   widgets.lcoe_pv),
          wp_co2     |-> co2_wp(wp_kwh, pv_deckung_wp, widgets.co2_strom),
          vollbenutzungsstunden_wp |-> vollbenutzungsstunden(q_h, widgets.wp_kw).stunden ]
    ))))))

\* Export: the row of df_export, built from the widgets' values and from the
\* variables b of the same run.
df_export(widgets, b) ==
    [ Wohnflaeche_m2 |-> widgets.wohnflaeche,
      PV_kWp         |-> widgets.pv_kwp,
      Speicher_kWh   |-> widgets.speicher_kwh,
      WP_kW          |-> widgets.wp_kw,
      Spez_Heizwaermebedarf_kWh_m2a |-> widgets.spez_bedarf,
      QH_kWh_a         |-> b.q_h,
      PV_kWh_a         |-> b.pv_kwh,
      Oel_Liter_a      |-> b.oel_l,
      Oel_Kosten_EUR_a |-> b.oel_kosten,
      Gas_m3_a         |-> b.gas_m3,
      Gas_Kosten_EUR_a |-> b.gas_kosten,
      WP_Strom_kWh_a   |-> b.wp_kwh,
      WP_Kosten_EUR_a  |-> b.wp_kosten,
      CO2_Oel_kg_a     |-> b.oel_co2,
      CO2_Gas_kg_a     |-> b.gas_co2,
      CO2_WP_kg_a      |-> b.wp_co2 ]

\* A run whose coverage is capped by the installed peak power instead of being
\* the slider's value alone.
Script_coverage_from_pv(widgets) ==
    With(Berechnungen([ widgets EXCEPT !.pv_deckung =
                          IF FLt(widgets.pv_kwp, @) THEN widgets.pv_kwp ELSE @ ]),
         LAMBDA b : b @@ [ df_export |-> df_export(widgets, b) ])

\* One run of the script: the variables it computes and the row it exports.
Script(widgets) ==
    With(Berechnungen(widgets), LAMBDA b : b @@ [ df_export |-> df_export(widgets, b) ])

----------------------------------------------------------------------------
\* The session

\* How many accepted entries (reruns after the first run) a session is followed for.
MaxEdits == 2

VARIABLES
    w,        \* the widgets' current values
    r,        \* the variables of the latest script run
    edits,    \* accepted entries so far
    warn,     \* the last entry was outside the widget's bounds and was refused
    seen,     \* history: an earlier run of the session, its inputs and its results
    call      \* a call of the helper functions on its own: arguments, then results

vars == <<w, r, edits, warn, seen, call>>

NoCall == [fn |-> "none"]

InitSession ==
    /\ w = InitialValue
    /\ r = Script(InitialValue)
    /\ edits = 0
    /\ warn = FALSE
    /\ seen = <<>>

Init ==
    /\ InitSession
    /\ call = NoCall

\* Enter with an export row that is built once and kept.
Enter_export_kept(name, v) ==
    /\ IF Accepts(name, v)
       THEN /\ v # w[name]
            /\ edits < MaxEdits
            /\ w' = [w EXCEPT ![name] = v]
            /\ r' = [ Script(w') EXCEPT !.df_export = r.df_export ]
            /\ edits' = edits + 1
            /\ warn' = FALSE
       ELSE /\ warn' = TRUE
            /\ UNCHANGED <<w, r, edits>>
    /\ UNCHANGED <<seen, call>>

\* Enter with a heat demand that adds up over the runs.
Enter_accumulating(name, v) ==
    /\ IF Accepts(name, v)
       THEN /\ v # w[name]
            /\ edits < MaxEdits
            /\ w' = [w EXCEPT ![name] = v]
            /\ r' = [ Script(w') EXCEPT !.q_h = FAdd(@, r.q_h) ]
            /\ edits' = edits + 1
            /\ warn' = FALSE
       ELSE /\ warn' = TRUE
            /\ UNCHANGED <<w, r, edits>>
    /\ UNCHANGED <<seen, call>>

\* The user enters v into a widget.  Within the bounds the widget takes the
\* value and the whole script runs again; outside them it keeps its value.
Enter(name, v) ==
    /\ IF Accepts(name, v)
       THEN /\ v # w[name]
            /\ edits < MaxEdits
            /\ w' = [w EXCEPT ![name] = v]
            /\ r' = Script(w')
            /\ edits' = edits + 1
            /\ warn' = FALSE
       ELSE /\ warn' = TRUE
            /\ UNCHANGED <<w, r, edits>>
    /\ UNCHANGED <<seen, call>>

Next == \E name \in WidgetNames : \E v \in Entries[name] : Enter(name, v)

Spec == Init /\ [][Next]_vars

----------------------------------------------------------------------------
\* The session with its history: any one run may be the run that is remembered
\* and compared with the runs after it.

Remember ==
    /\ seen = <<>>
    /\ seen' = << [w |-> w, r |-> r] >>
    /\ UNCHANGED <<w, r, edits, warn, call>>

NextHist == Next \/ Remember

SpecHist == Init /\ [][NextHist]_vars

----------------------------------------------------------------------------
\* The helper functions called on their own, on arguments that need not come
\* from the widgets.

StrombedarfSet == { Zero, One, Dec(33282, 10), Dec(120622, 10) }

PvDeckSet ==
    { Dec(-1, 10), Zero, Dec(5, 100), Dec(20, 100), Dec(60, 100), Dec(95, 100), One,
      Dec(105, 100), Dec(15, 10) }

StrompreisSet == { Zero, Dec(7, 100), Dec(26, 100) }

LcoeSet == { Zero, Dec(7, 100), Dec(12, 100), Dec(26, 100), Dec(30, 100) }

Co2StromSet == { Zero, Dec(35, 100) }

WaermebedarfSet == { Dec(60, 1), Dec(38599, 1), Dec(77198, 1) }

EtaSet == { Dec(65, 100), Dec(80, 100), Dec(94, 100), Dec(95, 100), One }

PreisSet == { Zero, Dec(1, 100), Dec(105, 100) }

WpKwSet == { Zero, Dec(5, 10000), Epsilon, Dec(5, 10), One, Dec(13, 1) }

\* kosten_wp and co2_wp at two coverage fractions, everything else the same.
CallsWp ==
    [ fn : {"wp"}, strombedarf_wp : StrombedarfSet, pv_deck1 : PvDeckSet,
      pv_deck2 : PvDeckSet, strompreis : StrompreisSet, lcoe_pv : LcoeSet,
      co2_strom : Co2StromSet, ret : {<<>>} ]

\* The oil and the gas block at two efficiencies, everything else the same.
CallsBrennstoff ==
    [ fn : {"brennstoff"}, q_h : WaermebedarfSet, eta1 : EtaSet, eta2 : EtaSet,
      preis : PreisSet, ret : {<<>>} ]

\* The utilization hours.
CallsVbh ==
    [ fn : {"vbh"}, q_h : WaermebedarfSet, wp_kw : WpKwSet, ret : {<<>>} ]

InitFn ==
    /\ InitSession
    /\ call \in CallsWp \cup CallsBrennstoff \cup CallsVbh

Call_wp ==
    /\ call.fn = "wp"
    /\ call.ret = <<>>
    /\ call' = [call EXCEPT !.ret = <<
           [ kosten1 |-> kosten_wp_locals(call.strombedarf_wp, call.pv_deck1,
                                          call.strompreis, call.lcoe_pv),
             kosten2 |-> kosten_wp_locals(call.strombedarf_wp, call.pv_deck2,
                                          call.strompreis, call.lcoe_pv),
             co2_1   |-> co2_wp_locals(call.strombedarf_wp, call.pv_deck1, call.co2_strom),
             co2_2   |-> co2_wp_locals(call.strombedarf_wp, call.pv_deck2, call.co2_strom) ] >>]
    /\ UNCHANGED <<w, r, edits, warn, seen>>

Call_brennstoff ==
    /\ call.fn = "brennstoff"
    /\ call.ret = <<>>
    /\ call' = [call EXCEPT !.ret = <<
           [ oel1 |-> oel_block(call.q_h, call.eta1, call.preis),
             oel2 |-> oel_block(call.q_h, call.eta2, call.preis),
             gas1 |-> gas_block(call.q_h, call.eta1, call.preis),
             gas2 |-> gas_block(call.q_h, call.eta2, call.preis) ] >>]
    /\ UNCHANGED <<w, r, edits, warn, seen>>

Call_vbh ==
    /\ call.fn = "vbh"
    /\ call.ret = <<>>
    /\ call' = [call EXCEPT !.ret = << vollbenutzungsstunden(call.q_h, call.wp_kw) >>]
    /\ UNCHANGED <<w, r, edits, warn, seen>>

NextFn == Call_wp \/ Call_brennstoff \/ Call_vbh

SpecFn == InitFn /\ [][NextFn]_vars
----------------------------------------------------------------------------
\* Exact comparisons of floats, for the properties below

\* a * 2^k, exactly.
Scale(a, k) == IF a.m = 0 THEN Zero ELSE [m |-> a.m, e |-> a.e + k]

\* The least exponent among the floats of s that are not 0.0 (0 if all are).
MinExp(s) ==
    LET nz == { a \in s : a.m # 0 }
    IN  IF nz = {} THEN 0 ELSE CHOOSE x \in { a.e : a \in nz } : \A a \in nz : x <= a.e

\* The integer a / 2^lo, for lo at most a's exponent.
Aligned(a, lo) == IF a.m = 0 THEN 0 ELSE a.m * Pow2(a.e - lo)

\* a - b <= t, in exact arithmetic.
ExactDiffLe(a, b, t) ==
    LET lo == MinExp({a, b, t})
    IN  Aligned(a, lo) - Aligned(b, lo) <= Aligned(t, lo)

Done(fn) == call.fn = fn /\ call.ret # <<>>

Ret == call.ret[1]

InUnit(c) == FLe(Zero, c) /\ FLe(c, One)

----------------------------------------------------------------------------
\* kosten_wp and co2_wp (SpecFn)

\* The call compares two coverage fractions c1 <= c2, both in [0, 1].
Covered == Done("wp") /\ InUnit(call.pv_deck1) /\ InUnit(call.pv_deck2)
               /\ FLe(call.pv_deck1, call.pv_deck2)

\* What rounding can add to a difference of two costs: 2^(4-Prec) times the
\* cost of the whole demand at the grid price.
RoundingSlack == Scale(FMul(call.strombedarf_wp, call.strompreis), 4 - Prec)

C3_Boundary ==
    Done("wp") =>
        /\ call.pv_deck1 = One =>
               /\ Ret.kosten1.netz_kwh = Zero
               /\ FMul(Ret.kosten1.netz_kwh, call.strompreis) = Zero
               /\ Ret.kosten1.return = FMul(call.strombedarf_wp, call.lcoe_pv)
               /\ Ret.co2_1.netz_kwh = Zero
               /\ Ret.co2_1.return = Zero
        /\ call.pv_deck1 = Zero =>
               /\ Ret.kosten1.pv_kwh = Zero
               /\ FMul(Ret.kosten1.pv_kwh, call.lcoe_pv) = Zero
               /\ Ret.kosten1.return = FMul(call.strombedarf_wp, call.strompreis)
               /\ Ret.co2_1.return = FMul(call.strombedarf_wp, call.co2_strom)

\* Full coverage of a demand that would cost and emit something from the grid.
C3_Witness ==
    /\ Done("wp")
    /\ call.pv_deck1 = One
    /\ call.strombedarf_wp.m > 0
    /\ call.strompreis.m > 0
    /\ call.lcoe_pv.m > 0
    /\ call.co2_strom.m > 0
    /\ Ret.kosten1.return.m > 0

\* C4: whatever the coverage fraction, above 1 included, the grid-covered
\* quantity of kosten_wp and of co2_wp, the grid term of the cost and the
\* emissions are not negative.
C4_GridNotNegative ==
    Done("wp") =>
        \A k \in { Ret.kosten1, Ret.kosten2 } : \A c \in { Ret.co2_1, Ret.co2_2 } :
            /\ k.netz_kwh.m >= 0
            /\ FMul(k.netz_kwh, call.strompreis).m >= 0
            /\ c.netz_kwh.m >= 0
            /\ c.return.m >= 0

\* A coverage fraction above 1 has been clamped.
C4_Witness ==
    /\ Done("wp")
    /\ FLt(One, call.pv_deck1)
    /\ call.strombedarf_wp.m > 0
    /\ call.strompreis.m > 0
    /\ FLt(call.strombedarf_wp, Ret.kosten1.pv_kwh)
    /\ Ret.kosten1.netz_kwh = Zero
    /\ Ret.co2_1.netz_kwh = Zero

\* C10: kosten_wp and co2_wp use the same grid-covered quantity, and for a
\* coverage in [0, 1] the solar-covered and the grid-covered quantity of
\* kosten_wp add up to the demand.
C10_SameGridQuantity ==
    Done("wp") =>
        /\ Ret.kosten1.netz_kwh = Ret.co2_1.netz_kwh
        /\ InUnit(call.pv_deck1) =>
               FAdd(Ret.kosten1.pv_kwh, Ret.kosten1.netz_kwh) = call.strombedarf_wp

----------------------------------------------------------------------------
\* Oil and gas (SpecFn)

\* The consumptions, costs and emissions of the call, at eta1 and at eta2.
Brennstoff(k) ==
    IF k = 1
    THEN << Ret.oel1.oel_l, Ret.oel1.oel_kosten, Ret.oel1.oel_co2,
            Ret.gas1.gas_m3, Ret.gas1.gas_kosten, Ret.gas1.gas_co2 >>
    ELSE << Ret.oel2.oel_l, Ret.oel2.oel_kosten, Ret.oel2.oel_co2,
            Ret.gas2.gas_m3, Ret.gas2.gas_kosten, Ret.gas2.gas_co2 >>

\* Of those, the consumptions and emissions, and the costs.
Mengen == { 1, 3, 4, 6 }

Kosten == { 2, 5 }

----------------------------------------------------------------------------
\* Utilization hours (SpecFn)

\* C9: the divisor of the utilization hours is max(wp_kw, 0.001), which is
\* above 0 for every wp_kw >= 0, and for every wp_kw the widget admits it is
\* wp_kw itself: the hours are q_h / wp_kw.
C9_GuardedDivision ==
    Done("vbh") =>
        /\ Ret.divisor = PyMax(call.wp_kw, Epsilon)
        /\ Ret.divisor.m > 0
        /\ Ret.stunden # ZeroDivisionError
        /\ FLe(MinValue.wp_kw, call.wp_kw) =>
               Ret.divisor = call.wp_kw /\ Ret.stunden = FDiv(call.q_h, call.wp_kw)

\* A rated power of 0 has been divided by.
C9_Witness ==
    /\ Done("vbh")
    /\ call.wp_kw = Zero
    /\ Ret.divisor = Epsilon
    /\ Ret.stunden = FDiv(call.q_h, Epsilon)

----------------------------------------------------------------------------
\* The inputs the calculation is run on (Spec)

Positive(a) == a.m > 0

NotNegative(a) == a.m >= 0

\* The fields of a run's variables, the export row left aside.
Variables(b) == DOMAIN b \ { "df_export" }

\* C5: in every state of a session the values the calculation was run on are
\* in the valid domain: efficiencies in (0,1], heating values > 0, seasonal
\* performance factor > 0, coverage in [0,1], living area > 0, rated power
\* > 0, prices and CO2 factors >= 0; every divisor is above 0 and no division
\* has failed; no widget holds a value outside its bounds.
C5_ValidDomain ==
    /\ \A name \in WidgetNames : Accepts(name, w[name])
    /\ Positive(w.eta_oel) /\ FLe(w.eta_oel, One)
    /\ Positive(w.eta_gas) /\ FLe(w.eta_gas, One)
    /\ Positive(DEFAULTS.heizwert_oel_kwh_l)
    /\ Positive(DEFAULTS.heizwert_gas_kwh_m3)
    /\ Positive(w.jaz_wp)
    /\ NotNegative(r.pv_deckung_wp) /\ FLe(r.pv_deckung_wp, One)
    /\ Positive(w.wohnflaeche)
    /\ Positive(w.wp_kw)
    /\ \A name \in { "preis_oel", "preis_gas", "strompreis_wp", "lcoe_pv", "co2_strom" } :
           NotNegative(w[name])
    /\ NotNegative(DEFAULTS.co2_oel_kg_l)
    /\ NotNegative(DEFAULTS.co2_gas_kg_m3)
    /\ Positive(FMul(w.eta_oel, DEFAULTS.heizwert_oel_kwh_l))
    /\ Positive(FMul(w.eta_gas, DEFAULTS.heizwert_gas_kwh_m3))
    /\ Positive(vollbenutzungsstunden(r.q_h, w.wp_kw).divisor)
    /\ \A f \in Variables(r) : r[f] # ZeroDivisionError

\* After an accepted entry, an efficiency of 0 has been entered and refused.
C5_Witness ==
    /\ warn
    /\ edits >= 1
    /\ \E name \in WidgetNames : w[name] # InitialValue[name]
    /\ ~ Accepts("eta_oel", Zero)

\* C6: in every state of a session the variables shown and the row exported
\* are those of the script run on the widgets' current values, and a step
\* changes the widgets' values only by putting an accepted entry into one
\* widget.
C6_ResultIsCurrent ==
    /\ [](r = Script(w))
    /\ [][ w' # w =>
             \E name \in WidgetNames : \E v \in Entries[name] :
                 Accepts(name, v) /\ w' = [w EXCEPT ![name] = v] ]_vars

\* Two entries have changed the heat demand, and the export row carries the
\* current one.
C6_Witness ==
    /\ edits >= 2
    /\ r.q_h # Script(InitialValue).q_h
    /\ r.df_export.QH_kWh_a = r.q_h
    /\ r.q_h = jahres_heizwaermebedarf(w.spez_bedarf, w.wohnflaeche)

----------------------------------------------------------------------------
\* Two runs of one session (SpecHist)

\* The widgets whose values only the solar yield and the utilization hours
\* read.
Informational == { "pv_kwp", "spez_ertrag", "speicher_kwh", "wp_kw" }

\* The heat-pump electricity demand, the coverage used and the three variants'
\* consumption, cost and emissions.
Outputs(b) ==
    [ f \in { "wp_kwh", "pv_deckung_wp", "oel_l", "oel_kosten", "oel_co2",
              "gas_m3", "gas_kosten", "gas_co2", "wp_kosten", "wp_co2" } |-> b[f] ]

\* C7: two runs whose inputs differ only in peak power, specific yield,
\* battery capacity or rated power have the same heat-pump electricity
\* demand, coverage, and consumption, cost and emissions of all three variants.
C7_YieldIsInformational ==
    \A i \in DOMAIN seen :
        (\A name \in WidgetNames \ Informational : seen[i].w[name] = w[name])
            => Outputs(seen[i].r) = Outputs(r)

\* Two runs that differ in peak power and rated power only, and in their solar
\* yield and utilization hours.
C7_Witness ==
    /\ seen # <<>>
    /\ seen[1].w.pv_kwp # w.pv_kwp
    /\ seen[1].w.wp_kw # w.wp_kw
    /\ \A name \in WidgetNames \ Informational : seen[1].w[name] = w[name]
    /\ seen[1].r.pv_kwh # r.pv_kwh
    /\ seen[1].r.vollbenutzungsstunden_wp # r.vollbenutzungsstunden_wp

====
